---- MODULE Spec2Model ----
(***************************************************************************)
(* Disease Explorer (src/miniproject.py): one run of the Streamlit script  *)
(* is load_data -> apply_filters -> convert_df_to_csv -> detail view ->     *)
(* insight metrics -> cross-tab; a widget interaction reruns the script.   *)
(*                                                                         *)
(* Text is a sequence of one-character strings.  A DataFrame is a record   *)
(* [columns, dtypes, rows]; a row is [idx |-> index label, c |-> cells].   *)
(* A numeric cell is held as its decimal text (what to_csv prints), a      *)
(* boolean cell as a BOOLEAN, a missing cell as NaN.                       *)
(***************************************************************************)
EXTENDS Integers, Sequences, FiniteSets, TLC

VARIABLES file, cache, df, search_term, contagious_filter, chronic_filter,
          top_n, filtered_df, csv_bytes, selected_name, detail,
          total_cnt, contagious_cnt, chronic_cnt, cross_tab, pc, err, errAt

vars == <<file, cache, df, search_term, contagious_filter, chronic_filter,
          top_n, filtered_df, csv_bytes, selected_name, detail,
          total_cnt, contagious_cnt, chronic_cnt, cross_tab, pc, err, errAt>>

(* ------------------------------ bounds -------------------------------- *)

\* longest base table (in rows) the input files are built from
MaxLen == 2
\* a long input file is a base table written Reps times over
Reps == 11
\* largest slider position explored
TopNCap == 20

(* ------------------------- program constants -------------------------- *)

SliderMin == 10
SliderMax == 500
SliderDefault == 100
SliderStep == 10

Columns == {"Name", "Symptoms", "Treatments", "Disease_Code", "Contagious", "Chronic"}

FilterOptions == {"All", "Yes", "No"}

(* ------------------------------- text --------------------------------- *)

NaN == <<"NaN">>
NoText == <<>>
TrueTok == <<"T", "r", "u", "e">>
FalseTok == <<"F", "a", "l", "s", "e">>

Min(a, b) == IF a < b THEN a ELSE b

Digits == {"0", "1", "2", "3", "4", "5", "6", "7", "8", "9"}

DigitVal(ch) ==
    CASE ch = "0" -> 0 [] ch = "1" -> 1 [] ch = "2" -> 2 [] ch = "3" -> 3
      [] ch = "4" -> 4 [] ch = "5" -> 5 [] ch = "6" -> 6 [] ch = "7" -> 7
      [] ch = "8" -> 8 [] ch = "9" -> 9

DigitChar(n) ==
    CASE n = 0 -> "0" [] n = 1 -> "1" [] n = 2 -> "2" [] n = 3 -> "3"
      [] n = 4 -> "4" [] n = 5 -> "5" [] n = 6 -> "6" [] n = 7 -> "7"
      [] n = 8 -> "8" [] n = 9 -> "9"

IsInteger(s) == Len(s) > 0 /\ \A i \in 1..Len(s) : s[i] \in Digits

RECURSIVE ToInt(_)
ToInt(s) ==
    IF Len(s) = 0 THEN 0
    ELSE 10 * ToInt(SubSeq(s, 1, Len(s) - 1)) + DigitVal(s[Len(s)])

RECURSIVE IntRepr(_)
IntRepr(n) ==
    IF n < 10 THEN <<DigitChar(n)>>
    ELSE Append(IntRepr(n \div 10), DigitChar(n % 10))

FloatRepr(n) == IntRepr(n) \o <<".", "0">>

\* re.IGNORECASE folds the letters of a pattern and of the text alike
Lower(ch) == CASE ch = "A" -> "a" [] ch = "B" -> "b" [] OTHER -> ch

(* ----------------------- pandas.read_csv / to_csv --------------------- *)

NoFrame == [columns |-> {}, dtypes |-> <<>>, rows |-> <<>>]
NoCsv == [header |-> {}, rows |-> <<>>]
NoRow == [idx |-> 0 - 1, c |-> <<>>]

\* dtype inference of one column of raw cells, as read_csv does it:
\* all cells True/False -> bool; all cells integers -> int64; integers and
\* empty cells -> float64; only empty cells -> float64 NaN; else object,
\* with every empty cell NaN.  A column of no cells is object.
ParseColumn(cells) ==
    LET n == Len(cells)
        filled == {i \in 1..n : cells[i] # NoText}
    IN  IF n = 0 THEN [dtype |-> "object", values |-> <<>>]
        ELSE IF \A i \in 1..n : cells[i] \in {TrueTok, FalseTok}
        THEN [dtype |-> "bool", values |-> [i \in 1..n |-> cells[i] = TrueTok]]
        ELSE IF \A i \in 1..n : IsInteger(cells[i])
        THEN [dtype |-> "int64",
              values |-> [i \in 1..n |-> IntRepr(ToInt(cells[i]))]]
        ELSE IF \A i \in filled : IsInteger(cells[i])
        THEN [dtype |-> "float64",
              values |-> [i \in 1..n |-> IF i \in filled
                                          THEN FloatRepr(ToInt(cells[i]))
                                          ELSE NaN]]
        ELSE [dtype |-> "object",
              values |-> [i \in 1..n |-> IF i \in filled THEN cells[i] ELSE NaN]]

read_csv(f) ==
    LET n == Len(f.rows)
        parsed == [k \in f.header |-> ParseColumn([i \in 1..n |-> f.rows[i][k]])]
    IN  [columns |-> f.header,
         dtypes |-> [k \in f.header |-> parsed[k].dtype],
         rows |-> [i \in 1..n |->
                     [idx |-> i - 1,
                      c |-> [k \in f.header |-> parsed[k].values[i]]]]]

\* one cell as to_csv writes it: NaN as the empty field, a boolean as
\* True/False, everything else as its text
FormatCell(dtype, v) ==
    IF dtype = "bool" THEN (IF v THEN TrueTok ELSE FalseTok)
    ELSE IF v = NaN THEN NoText
    ELSE v

\* DataFrame.to_csv(index=False): the header and one line per row, the
\* index labels dropped
to_csv(dataframe) ==
    [header |-> dataframe.columns,
     rows |-> [i \in 1..Len(dataframe.rows) |->
                 [k \in dataframe.columns |->
                    FormatCell(dataframe.dtypes[k], dataframe.rows[i].c[k])]]]

(* ------------------- Series.str.contains(case=False) ------------------ *)

\* The pattern is compiled as a regular expression (regex=True is the
\* default).  Patterns here are over letters, '.', '*' and '(': a '(' is
\* never closed, and a '*' needs an atom right before it.
PatternCompiles(pat) ==
    \A i \in 1..Len(pat) :
        /\ pat[i] # "("
        /\ pat[i] = "*" => (i > 1 /\ pat[i - 1] # "*")

\* the compiled pattern: its atoms in order, each with whether it is starred
PatternItems(pat) ==
    LET atoms == {i \in 1..Len(pat) : pat[i] # "*"}
        nth[k \in 1..Cardinality(atoms)] ==
            CHOOSE i \in atoms : Cardinality({j \in atoms : j < i}) = k - 1
    IN  [k \in 1..Cardinality(atoms) |->
           [ch |-> pat[nth[k]],
            star |-> nth[k] < Len(pat) /\ pat[nth[k] + 1] = "*"]]

AtomMatches(atom, ch) == atom = "." \/ Lower(atom) = Lower(ch)

RECURSIVE MatchFrom(_, _, _, _)
MatchFrom(items, k, s, i) ==
    IF k > Len(items) THEN TRUE
    ELSE IF items[k].star
    THEN \/ MatchFrom(items, k + 1, s, i)
         \/ /\ i <= Len(s)
            /\ AtomMatches(items[k].ch, s[i])
            /\ MatchFrom(items, k, s, i + 1)
    ELSE /\ i <= Len(s)
         /\ AtomMatches(items[k].ch, s[i])
         /\ MatchFrom(items, k + 1, s, i + 1)

\* regex.search(x) is not None
RegexSearch(items, s) == \E i \in 1..(Len(s) + 1) : MatchFrom(items, 1, s, i)

\* dataframe[col].str.contains(pat, case=False, na=False): the column
\* lookup, the .str accessor's check, the compilation and the row mask
str_contains(dataframe, col, pat) ==
    IF col \notin dataframe.columns
    THEN [err |-> "KeyError", mask |-> <<>>]
    ELSE IF dataframe.dtypes[col] # "object"
    THEN [err |-> "AttributeError", mask |-> <<>>]
    ELSE IF ~PatternCompiles(pat)
    THEN [err |-> "re.error", mask |-> <<>>]
    ELSE [err |-> "",
          mask |-> [i \in 1..Len(dataframe.rows) |->
                      LET x == dataframe.rows[i].c[col]
                      IN  IF x = NaN THEN FALSE
                          ELSE RegexSearch(PatternItems(pat), x)]]

(* ---------------------------- apply_filters --------------------------- *)

\* dataframe[mask]: the rows whose mask entry is true, labels kept
RECURSIVE Select(_, _)
Select(rows, mask) ==
    IF Len(rows) = 0 THEN <<>>
    ELSE LET rest == Select(SubSeq(rows, 1, Len(rows) - 1),
                            SubSeq(mask, 1, Len(rows) - 1))
         IN  IF mask[Len(rows)] THEN Append(rest, rows[Len(rows)]) ELSE rest

WithRows(dataframe, rows) == [dataframe EXCEPT !.rows = rows]

\* lines 101-106: the text search
SearchStep(dataframe, term) ==
    IF term = NoText THEN [err |-> "", df |-> dataframe]
    ELSE LET byName == str_contains(dataframe, "Name", term)
             bySymptoms == str_contains(dataframe, "Symptoms", term)
         IN  IF byName.err # "" THEN [err |-> byName.err, df |-> NoFrame]
             ELSE IF bySymptoms.err # ""
             THEN [err |-> bySymptoms.err, df |-> NoFrame]
             ELSE [err |-> "",
                   df |-> WithRows(dataframe,
                            Select(dataframe.rows,
                                   [i \in 1..Len(dataframe.rows) |->
                                      byName.mask[i] \/ bySymptoms.mask[i]]))]

\* lines 109-113: dataframe[dataframe[col] == (choice == "Yes")]
FlagStep(dataframe, col, choice) ==
    IF choice = "All" THEN [err |-> "", df |-> dataframe]
    ELSE IF col \notin dataframe.columns THEN [err |-> "KeyError", df |-> NoFrame]
    ELSE [err |-> "",
          df |-> WithRows(dataframe,
                   Select(dataframe.rows,
                          [i \in 1..Len(dataframe.rows) |->
                             dataframe.rows[i].c[col] = (choice = "Yes")]))]

\* head() without its bound
head_unbounded(dataframe, n) == dataframe

\* DataFrame.head(n)
head(dataframe, n) ==
    WithRows(dataframe, SubSeq(dataframe.rows, 1, Min(n, Len(dataframe.rows))))

\* the truncation made before the boolean filters
apply_filters_head_first(dataframe, term, contagious, chronic, n) ==
    LET s1 == SearchStep(dataframe, term)
    IN  IF s1.err # "" THEN s1
        ELSE LET s2 == FlagStep(head(s1.df, n), "Contagious", contagious)
             IN  IF s2.err # "" THEN s2
                 ELSE FlagStep(s2.df, "Chronic", chronic)

apply_filters(dataframe, term, contagious, chronic, n) ==
    LET s1 == SearchStep(dataframe, term)
    IN  IF s1.err # "" THEN s1
        ELSE LET s2 == FlagStep(s1.df, "Contagious", contagious)
             IN  IF s2.err # "" THEN s2
                 ELSE LET s3 == FlagStep(s2.df, "Chronic", chronic)
                      IN  IF s3.err # "" THEN s3
                          ELSE [err |-> "", df |-> head(s3.df, n)]

(* ----------------------------- detail view ---------------------------- *)

\* Series == value: a missing cell equals nothing, itself included
CellEq(x, v) == x # NaN /\ v # NaN /\ x = v

\* DataFrame.empty
IsEmpty(dataframe) == Len(dataframe.rows) = 0 \/ dataframe.columns = {}

\* filtered_df["Name"].unique(): the selectbox's options (line 157)
NameOptions(dataframe) ==
    {dataframe.rows[i].c["Name"] : i \in 1..Len(dataframe.rows)}

\* the lookup taking the last hit, .iloc[-1]
detail_lookup_last(dataframe, name) ==
    IF "Name" \notin dataframe.columns THEN [err |-> "KeyError", row |-> NoRow]
    ELSE LET hits == {i \in 1..Len(dataframe.rows) :
                        CellEq(dataframe.rows[i].c["Name"], name)}
         IN  IF hits = {} THEN [err |-> "IndexError", row |-> NoRow]
             ELSE [err |-> "",
                   row |-> dataframe.rows[CHOOSE i \in hits :
                                            \A j \in hits : j <= i]]

\* line 159: dataframe[dataframe["Name"] == name].iloc[0]
detail_lookup(dataframe, name) ==
    IF "Name" \notin dataframe.columns THEN [err |-> "KeyError", row |-> NoRow]
    ELSE LET hits == {i \in 1..Len(dataframe.rows) :
                        CellEq(dataframe.rows[i].c["Name"], name)}
         IN  IF hits = {} THEN [err |-> "IndexError", row |-> NoRow]
             ELSE [err |-> "",
                   row |-> dataframe.rows[CHOOSE i \in hits :
                                            \A j \in hits : i <= j]]

(* ------------------------------ insights ------------------------------ *)

\* Series.sum() of a boolean column: the number of True cells; of a column
\* of no cells: 0
RECURSIVE ColumnSum(_, _)
ColumnSum(rows, col) ==
    IF Len(rows) = 0 THEN 0
    ELSE ColumnSum(SubSeq(rows, 1, Len(rows) - 1), col)
         + (IF rows[Len(rows)].c[col] THEN 1 ELSE 0)

\* the label pandas shows for a boolean key
Label(b) == IF b THEN "True" ELSE "False"

NoCrossTab == [index |-> {}, columns |-> {}, cell |-> <<>>]

\* the cross-tab with its two arguments taken in the other order
crosstab_swapped(dataframe, a, b) ==
    LET n == Len(dataframe.rows)
        index == {Label(dataframe.rows[i].c[b]) : i \in 1..n}
        columns == {Label(dataframe.rows[i].c[a]) : i \in 1..n}
        hit(i, r, k) ==
            /\ r = "All" \/ Label(dataframe.rows[i].c[b]) = r
            /\ k = "All" \/ Label(dataframe.rows[i].c[a]) = k
    IN  [index |-> index,
         columns |-> columns,
         cell |-> [rk \in (index \cup {"All"}) \X (columns \cup {"All"}) |->
                     Cardinality({i \in 1..n : hit(i, rk[1], rk[2])})]]

\* pd.crosstab(a, b, margins=True): one row per value of a that occurs, one
\* column per value of b that occurs, and the "All" margins, each counted
\* from the data
crosstab(dataframe, a, b) ==
    LET n == Len(dataframe.rows)
        index == {Label(dataframe.rows[i].c[a]) : i \in 1..n}
        columns == {Label(dataframe.rows[i].c[b]) : i \in 1..n}
        hit(i, r, k) ==
            /\ r = "All" \/ Label(dataframe.rows[i].c[a]) = r
            /\ k = "All" \/ Label(dataframe.rows[i].c[b]) = k
    IN  [index |-> index,
         columns |-> columns,
         cell |-> [rk \in (index \cup {"All"}) \X (columns \cup {"All"}) |->
                     Cardinality({i \in 1..n : hit(i, rk[1], rk[2])})]]

(* ------------------------------- inputs ------------------------------- *)

Row(name, symptoms, treatments, code, contagious, chronic) ==
    [k \in Columns |->
       CASE k = "Name" -> name
         [] k = "Symptoms" -> symptoms
         [] k = "Treatments" -> treatments
         [] k = "Disease_Code" -> code
         [] k = "Contagious" -> contagious
         [] k = "Chronic" -> chronic]

\* rows that differ in what the filters and the detail view read
MainRows ==
    { Row(<<"A", "b">>, <<"a">>, <<"t">>, <<"D", "1">>, TrueTok, FalseTok),
      Row(<<"A", "b">>, NoText, <<"t">>, <<"D", "1">>, FalseTok, TrueTok),
      Row(<<"b">>, <<"a">>, <<"t">>, <<"D", "1">>, FalseTok, FalseTok),
      Row(NoText, <<"a">>, <<"t">>, <<"D", "1">>, TrueTok, TrueTok) }

\* rows that differ in what the export writes
CsvRows ==
    { Row(<<"b">>, <<"a">>, <<"t">>, <<"D", "1">>, TrueTok, FalseTok),
      Row(<<"b">>, <<"a">>, NoText, <<"0", "0", "7">>, FalseTok, FalseTok),
      Row(<<"A", "b">>, <<"a">>, <<"t">>, <<"1", "2">>, FalseTok, TrueTok) }

SchemaRows ==
    { Row(<<"A", "b">>, <<"a">>, <<"t">>, <<"D", "1">>, TrueTok, FalseTok),
      Row(<<"b">>, <<"a">>, NoText, <<"D", "1">>, FalseTok, TrueTok) }

Tables(S) == UNION {[1..n -> S] : n \in 0..MaxLen}

Repeat(t, k) == [i \in 1..(k * Len(t)) |-> t[((i - 1) % Len(t)) + 1]]

Csv(header, t) ==
    [header |-> header, rows |-> [i \in 1..Len(t) |-> [k \in header |-> t[i][k]]]]

Files ==
    {Csv(Columns, t) : t \in Tables(MainRows) \cup Tables(CsvRows)}
    \cup {Csv(Columns, Repeat(t, Reps)) : t \in Tables(MainRows)}
    \cup {Csv(Columns \ {k}, t) : k \in Columns, t \in Tables(SchemaRows)}

SearchTerms == {NoText, <<"a">>, <<".">>, <<"b", "*">>, <<"(">>}

\* st.slider("Max rows to display", 10, 500, 100, step=10)
SliderValues ==
    {n \in SliderMin..Min(SliderMax, TopNCap) : (n - SliderMin) % SliderStep = 0}

(* ------------------------------ the script ---------------------------- *)

Init ==
    /\ file \in Files
    /\ cache = <<>>
    /\ df = NoFrame
    /\ search_term = NoText
    /\ contagious_filter = "All"
    /\ chronic_filter = "All"
    /\ top_n = SliderDefault
    /\ filtered_df = NoFrame
    /\ csv_bytes = NoCsv
    /\ selected_name = NoText
    /\ detail = NoRow
    /\ total_cnt = 0
    /\ contagious_cnt = 0
    /\ chronic_cnt = 0
    /\ cross_tab = NoCrossTab
    /\ pc = "load"
    /\ err = ""
    /\ errAt = ""

Raise(e, at) == pc' = "error" /\ err' = e /\ errAt' = at

\* lines 65-72: st.cache_data keeps the parsed file and hands out a copy
load_data ==
    /\ pc = "load"
    /\ \/ /\ cache = <<>>
          /\ cache' = <<read_csv(file)>>
          /\ df' = read_csv(file)
       \/ /\ cache # <<>>
          /\ cache' = cache
          /\ df' = cache[1]
    /\ pc' = "filter"
    /\ UNCHANGED <<file, search_term, contagious_filter, chronic_filter, top_n,
                   filtered_df, csv_bytes, selected_name, detail, total_cnt,
                   contagious_cnt, chronic_cnt, cross_tab, err, errAt>>

\* the filters applied to the table itself instead of to a copy
run_apply_filters_in_place ==
    /\ pc = "filter"
    /\ LET r == apply_filters(df, search_term, contagious_filter,
                              chronic_filter, top_n)
       IN  IF r.err # ""
           THEN Raise(r.err, "filter") /\ UNCHANGED <<filtered_df, df>>
           ELSE /\ filtered_df' = r.df
                /\ df' = r.df
                /\ pc' = "export"
                /\ UNCHANGED <<err, errAt>>
    /\ UNCHANGED <<file, cache, search_term, contagious_filter,
                   chronic_filter, top_n, csv_bytes, selected_name, detail,
                   total_cnt, contagious_cnt, chronic_cnt, cross_tab>>

\* line 117: filtered_df = apply_filters(df)
run_apply_filters ==
    /\ pc = "filter"
    /\ LET r == apply_filters(df, search_term, contagious_filter,
                              chronic_filter, top_n)
       IN  IF r.err # ""
           THEN Raise(r.err, "filter") /\ UNCHANGED filtered_df
           ELSE filtered_df' = r.df /\ pc' = "export" /\ UNCHANGED <<err, errAt>>
    /\ UNCHANGED <<file, cache, df, search_term, contagious_filter,
                   chronic_filter, top_n, csv_bytes, selected_name, detail,
                   total_cnt, contagious_cnt, chronic_cnt, cross_tab>>

\* lines 133-137: csv_bytes = convert_df_to_csv(filtered_df); st.cache_data
\* keys its memo on the frame's content, so a hit returns what to_csv returns
convert_df_to_csv ==
    /\ pc = "export"
    /\ csv_bytes' = to_csv(filtered_df)
    /\ pc' = "detail"
    /\ UNCHANGED <<file, cache, df, search_term, contagious_filter,
                   chronic_filter, top_n, filtered_df, selected_name, detail,
                   total_cnt, contagious_cnt, chronic_cnt, cross_tab, err, errAt>>

\* lines 152-176: the selectbox over the filtered names, the lookup, and the
\* fields the detail card reads
detail_view ==
    /\ pc = "detail"
    /\ IF IsEmpty(filtered_df)
       THEN pc' = "metrics" /\ UNCHANGED <<selected_name, detail, err, errAt>>
       ELSE IF "Name" \notin filtered_df.columns
       THEN Raise("KeyError", "detail") /\ UNCHANGED <<selected_name, detail>>
       ELSE \E name \in NameOptions(filtered_df) :
              /\ selected_name' = name
              /\ LET r == detail_lookup(filtered_df, name)
                 IN  IF r.err # ""
                     THEN Raise(r.err, "detail") /\ UNCHANGED detail
                     ELSE IF ~(Columns \subseteq filtered_df.columns)
                     THEN Raise("KeyError", "detail") /\ UNCHANGED detail
                     ELSE /\ detail' = r.row
                          /\ pc' = "metrics"
                          /\ UNCHANGED <<err, errAt>>
    /\ UNCHANGED <<file, cache, df, search_term, contagious_filter,
                   chronic_filter, top_n, filtered_df, csv_bytes, total_cnt,
                   contagious_cnt, chronic_cnt, cross_tab>>

\* lines 185-192: the counts, then count/total for the two deltas
metrics ==
    /\ pc = "metrics"
    /\ total_cnt' = Len(df.rows)
    /\ IF "Contagious" \notin df.columns
       THEN Raise("KeyError", "metrics") /\ UNCHANGED <<contagious_cnt, chronic_cnt>>
       ELSE /\ contagious_cnt' = ColumnSum(df.rows, "Contagious")
            /\ IF "Chronic" \notin df.columns
               THEN Raise("KeyError", "metrics") /\ UNCHANGED chronic_cnt
               ELSE /\ chronic_cnt' = ColumnSum(df.rows, "Chronic")
                    /\ IF Len(df.rows) = 0
                       THEN Raise("ZeroDivisionError", "metrics")
                       ELSE pc' = "crosstab" /\ UNCHANGED <<err, errAt>>
    /\ UNCHANGED <<file, cache, df, search_term, contagious_filter,
                   chronic_filter, top_n, filtered_df, csv_bytes,
                   selected_name, detail, cross_tab>>

\* line 220
cross_tab_view ==
    /\ pc = "crosstab"
    /\ cross_tab' = crosstab(df, "Contagious", "Chronic")
    /\ pc' = "done"
    /\ UNCHANGED <<file, cache, df, search_term, contagious_filter,
                   chronic_filter, top_n, filtered_df, csv_bytes,
                   selected_name, detail, total_cnt, contagious_cnt,
                   chronic_cnt, err, errAt>>

\* lines 86-91: a widget changes and Streamlit runs the script again from
\* the top, with nothing of the last run but the cache
rerun ==
    /\ pc \in {"done", "error"}
    /\ search_term' \in SearchTerms
    /\ contagious_filter' \in FilterOptions
    /\ chronic_filter' \in FilterOptions
    /\ top_n' \in SliderValues
    /\ filtered_df' = NoFrame
    /\ csv_bytes' = NoCsv
    /\ selected_name' = NoText
    /\ detail' = NoRow
    /\ total_cnt' = 0
    /\ contagious_cnt' = 0
    /\ chronic_cnt' = 0
    /\ cross_tab' = NoCrossTab
    /\ pc' = "load"
    /\ err' = ""
    /\ errAt' = ""
    /\ UNCHANGED <<file, cache, df>>

Next ==
    \/ load_data
    \/ run_apply_filters
    \/ convert_df_to_csv
    \/ detail_view
    \/ metrics
    \/ cross_tab_view
    \/ rerun

Spec == Init /\ [][Next]_vars

(* ------------------------------ properties ---------------------------- *)

\* apply_filters has returned in the current run
FilterReturned ==
    \/ pc \in {"export", "detail", "metrics", "crosstab", "done"}
    \/ pc = "error" /\ errAt \in {"detail", "metrics"}

\* the detail lookup has been made in the current run
LookupMade == selected_name # NoText /\ Columns \subseteq filtered_df.columns

Range(s) == {s[i] : i \in 1..Len(s)}

FirstN(s, n) == SubSeq(s, 1, Min(n, Len(s)))

\* s is a subsequence of the table t, in t's order: every row of s is the
\* row of t that carries its label, and the labels increase
IsSubsequence(s, t) ==
    /\ \A i \in 1..Len(s) :
          /\ s[i].idx + 1 \in 1..Len(t)
          /\ t[s[i].idx + 1] = s[i]
    /\ \A i, j \in 1..Len(s) : i < j => s[i].idx < s[j].idx

\* C1: whenever apply_filters returns, its result is a subsequence of the
\* table in the table's order, and holds at most top_n rows.
C1_SubsequenceWithinMaxRows ==
    FilterReturned =>
        /\ IsSubsequence(filtered_df.rows, df.rows)
        /\ Len(filtered_df.rows) <= top_n

\* C1 witness: a search over a table longer than top_n was cut to top_n rows
C1_Witness ==
    /\ pc = "export"
    /\ search_term # NoText
    /\ Len(df.rows) > top_n
    /\ Len(filtered_df.rows) = top_n

\* a field is hit by the search as the code runs it
FieldHit(x) == x # NaN /\ RegexSearch(PatternItems(search_term), x)

\* a row passes every active predicate
Passes(r) ==
    /\ search_term # NoText => (FieldHit(r.c["Name"]) \/ FieldHit(r.c["Symptoms"]))
    /\ contagious_filter # "All" => r.c["Contagious"] = (contagious_filter = "Yes")
    /\ chronic_filter # "All" => r.c["Chronic"] = (chronic_filter = "Yes")

\* the predicates applied in the opposite order, then the truncation
ReverseOrder ==
    head(SearchStep(FlagStep(FlagStep(df, "Chronic", chronic_filter).df,
                             "Contagious", contagious_filter).df,
                    search_term).df,
         top_n)

\* C2: whenever apply_filters returns, its result is exactly the first top_n
\* of the rows that pass every active predicate, in table order, and it is
\* the same with the predicates applied in the opposite order.
C2_TruncationLast ==
    FilterReturned =>
        /\ filtered_df.rows = FirstN(SelectSeq(df.rows, Passes), top_n)
        /\ filtered_df = ReverseOrder

\* C2 witness: more than top_n rows pass a boolean filter and the first row
\* of the table does not
C2_Witness ==
    /\ pc = "export"
    /\ contagious_filter # "All"
    /\ Len(SelectSeq(df.rows, Passes)) > top_n
    /\ ~Passes(df.rows[1])
    /\ Len(filtered_df.rows) = top_n

\* the field contains the search term as a literal substring, letter case
\* ignored; a missing field contains nothing
ContainsLiteral(x) ==
    /\ x # NaN
    /\ \E i \in 0..(Len(x) - Len(search_term)) :
          \A j \in 1..Len(search_term) : Lower(x[i + j]) = Lower(search_term[j])

LiteralPass(r) == ContainsLiteral(r.c["Name"]) \/ ContainsLiteral(r.c["Symptoms"])

\* C3: with a non-empty search term over a table whose Name and Symptoms
\* columns hold text, the filter does not fail, and with no other predicate
\* and no truncation it keeps exactly the rows whose Name or Symptoms
\* contains the term as a literal substring, case-insensitively.
C3_LiteralSubstringSearch ==
    (/\ search_term # NoText
     /\ Columns \subseteq df.columns
     /\ pc \notin {"load", "filter"}
     /\ df.dtypes["Name"] = "object"
     /\ df.dtypes["Symptoms"] = "object") =>
        /\ ~(pc = "error" /\ errAt = "filter")
        /\ (FilterReturned /\ contagious_filter = "All" /\ chronic_filter = "All"
              /\ top_n >= Len(df.rows))
           => filtered_df.rows = SelectSeq(df.rows, LiteralPass)

\* C4 as stated: for every name among the filtered names, the lookup on the
\* filtered table finds the same record as the lookup on the full table.
C4_SameRecordAsFullTable ==
    (FilterReturned /\ "Name" \in df.columns) =>
        \A name \in NameOptions(filtered_df) :
            LET a == detail_lookup(filtered_df, name)
                b == detail_lookup(df, name)
            IN  a.err = b.err /\ a.row.c = b.row.c

\* the first row of the table with this Name is among the filtered rows
FirstOccurrenceKept(name) ==
    \A i \in 1..Len(df.rows) :
        (/\ CellEq(df.rows[i].c["Name"], name)
         /\ \A j \in 1..(i - 1) : ~CellEq(df.rows[j].c["Name"], name))
        => df.rows[i] \in Range(filtered_df.rows)

\* C4 amended: for every name among the filtered names whose first row in
\* the table is itself among the filtered rows, the lookup on the filtered
\* table gives what the lookup on the full table gives.
C4_SameRecordWhenFirstKept ==
    (FilterReturned /\ "Name" \in df.columns) =>
        \A name \in NameOptions(filtered_df) :
            FirstOccurrenceKept(name) =>
                detail_lookup(filtered_df, name) = detail_lookup(df, name)

\* C4 witness: the table holds two different records of the selected name,
\* the filter dropped the second, and the detail shown is the full table's
C4_Witness ==
    /\ pc = "metrics"
    /\ LookupMade
    /\ Len(filtered_df.rows) < Len(df.rows)
    /\ FirstOccurrenceKept(selected_name)
    /\ \E i, j \in 1..Len(df.rows) :
          /\ i < j
          /\ CellEq(df.rows[i].c["Name"], selected_name)
          /\ CellEq(df.rows[j].c["Name"], selected_name)
          /\ df.rows[i].c # df.rows[j].c
          /\ df.rows[j] \notin Range(filtered_df.rows)
    /\ detail = detail_lookup(df, selected_name).row

\* C5: the lookup shows the first record whose Name equals the requested
\* name, and when no record has that Name it does not fail.
C5_LookupNeverFails ==
    LookupMade =>
        LET hits == {i \in 1..Len(filtered_df.rows) :
                       CellEq(filtered_df.rows[i].c["Name"], selected_name)}
        IN  IF hits # {}
            THEN /\ ~(pc = "error" /\ errAt = "detail")
                 /\ detail = filtered_df.rows[CHOOSE i \in hits :
                                                \A j \in hits : i <= j]
            ELSE ~(pc = "error" /\ errAt = "detail")

\* C6: on an empty table with every required column the insights do not
\* raise.
C6_EmptyTableSummary ==
    (Columns \subseteq df.columns /\ Len(df.rows) = 0) =>
        ~(pc = "error" /\ errAt = "metrics")

CountRows(c, h) ==
    Cardinality({i \in 1..Len(df.rows) :
                   /\ df.rows[i].c["Contagious"] = c
                   /\ df.rows[i].c["Chronic"] = h})

\* the cross-tab's cell, 0 where the row or the column is not in the grid
Cell(r, k) ==
    IF r \in cross_tab.index \cup {"All"} /\ k \in cross_tab.columns \cup {"All"}
    THEN cross_tab.cell[<<r, k>>]
    ELSE 0

\* C7: the counts are the table's, every inner cell of the cross-tab is the
\* number of records with that pair of flags, every margin is the sum of its
\* row or column, and the corner is the total.
C7_SummaryCounts ==
    /\ (pc \in {"crosstab", "done"} \/ (pc = "error" /\ err = "ZeroDivisionError")) =>
          /\ total_cnt = Len(df.rows)
          /\ contagious_cnt = CountRows(TRUE, TRUE) + CountRows(TRUE, FALSE)
          /\ chronic_cnt = CountRows(TRUE, TRUE) + CountRows(FALSE, TRUE)
          /\ contagious_cnt + (total_cnt - contagious_cnt) = total_cnt
    /\ pc = "done" =>
          /\ \A c, h \in BOOLEAN : Cell(Label(c), Label(h)) = CountRows(c, h)
          /\ \A r \in cross_tab.index :
                Cell(r, "All") = Cell(r, "False") + Cell(r, "True")
          /\ \A k \in cross_tab.columns :
                Cell("All", k) = Cell("False", k) + Cell("True", k)
          /\ Cell("All", "All") = total_cnt

\* C7 witness: a finished summary of a long table with contagious and
\* non-contagious records, more of one mixed kind than of the other
C7_Witness ==
    /\ pc = "done"
    /\ total_cnt > SliderMin
    /\ cross_tab.index = {"False", "True"}
    /\ Cell("True", "False") > Cell("False", "True")
    /\ Cell("False", "False") > 0
    /\ Cell("All", "False") = total_cnt

\* C8: no step of a run changes the loaded table, cached or bound to df.
C8_TableNeverMutated ==
    [][pc # "load" => (file' = file /\ cache' = cache /\ df' = df)]_vars

\* C8 witness: a later run whose filters dropped rows has finished, and the
\* table is still the one parsed from the file
C8_Witness ==
    /\ pc = "done"
    /\ search_term # NoText
    /\ contagious_filter # "All"
    /\ Len(filtered_df.rows) < Len(df.rows)
    /\ cache = <<read_csv(file)>>
    /\ df = read_csv(file)

\* C9: when the file lacks a required column, the run ends at the load with
\* a SchemaError, before any other step runs.
C9_SchemaErrorAtLoad ==
    (pc # "load" /\ ~(Columns \subseteq file.header)) =>
        (pc = "error" /\ err = "SchemaError" /\ errAt = "load")

\* the same records in the same order with the same values, whatever the
\* labels and the order of the columns
SameTable(a, b) ==
    /\ a.columns = b.columns
    /\ Len(a.rows) = Len(b.rows)
    /\ \A i \in 1..Len(a.rows) : a.rows[i].c = b.rows[i].c

\* C10: loading the exported file gives the filtered table back.
C10_RoundTrip ==
    (pc \in {"detail", "metrics", "crosstab", "done"}
        \/ (pc = "error" /\ errAt \in {"detail", "metrics"})) =>
        SameTable(read_csv(csv_bytes), filtered_df)

====
